---- MODULE Spec2Model ----
(***************************************************************************)
(* A model of elevenporescena.py: the text fragmenter                      *)
(* (split_text_for_tts), the synthesis client                              *)
(* (generate_audio_with_retries, get_available_voices), the archive        *)
(* builder (create_zip_files_by_version) and the Streamlit script main()   *)
(* with its session state (st.session_state.current_generation).           *)
(*                                                                         *)
(* A Python str is a sequence of one-character strings.                    *)
(***************************************************************************)
EXTENDS Integers, Sequences, FiniteSets, TLC

VARIABLES
    \* -- split_text_for_tts called on its own (SpecSplit) --
    text,               \* the argument text
    max_chars,          \* the argument max_chars
    split_pc,           \* "input" before the call, "done" after it
    fragments_out,      \* what the call returned (with its provenance)
    \* -- the session and one run of main() (Spec) --
    current_generation, \* st.session_state.current_generation
    pc,                 \* "idle": no run in progress; "scene", "attempt", "zip": inside the batch
    inputs,             \* the widget values main() reads in the current (or last) run
    voices,             \* what get_available_voices returned in this run
    scene_idx,          \* position of the scene being processed in df (1-based)
    fragments,          \* split_text_for_tts(scene_text, max_chars) of that scene
    frag_idx,           \* i of line 262
    attempt,            \* attempt of line 75 (0-based)
    results,            \* results of generate_audio_with_retries (line 72)
    all_audio_files,    \* all_audio_files of line 246
    events,             \* history: the service calls and the sleeps of this run, in order
    lastRun,            \* history: how the last run of main() ended
    genAtStart,         \* history: current_generation when the current (or last) run began
    batches,            \* history: batches begun so far; also the clock of datetime.now()
    failures,           \* history: failed service calls so far in the session
    rows                \* history: spreadsheet rows given to batches so far in the session

vars == <<text, max_chars, split_pc, fragments_out, current_generation, pc, inputs,
          voices, scene_idx, fragments, frag_idx, attempt, results, all_audio_files,
          events, lastRun, genAtStart, batches, failures, rows>>

splitVars == <<text, max_chars, split_pc, fragments_out>>
mainVars == <<current_generation, pc, inputs, voices, scene_idx, fragments, frag_idx,
              attempt, results, all_audio_files, events, lastRun, genAtStart, batches,
              failures, rows>>

-----------------------------------------------------------------------------
(* Python str operations *)

NL == "\n"
Whitespace == {" ", NL}

RECURSIVE LStrip(_, _)
\* s.lstrip(chars)
LStrip(s, cs) ==
    IF s # <<>> /\ Head(s) \in cs THEN LStrip(Tail(s), cs) ELSE s

RECURSIVE RStrip(_, _)
\* s.rstrip(chars)
RStrip(s, cs) ==
    IF s # <<>> /\ s[Len(s)] \in cs THEN RStrip(SubSeq(s, 1, Len(s) - 1), cs) ELSE s

\* s.strip(chars)
StripChars(s, cs) == RStrip(LStrip(s, cs), cs)

\* s.strip()
Strip(s) == StripChars(s, Whitespace)

RECURSIVE SplitFrom(_, _, _, _)
SplitFrom(s, c, i, cur) ==
    IF i > Len(s) THEN <<cur>>
    ELSE IF s[i] = c THEN <<cur>> \o SplitFrom(s, c, i + 1, <<>>)
    ELSE SplitFrom(s, c, i + 1, Append(cur, s[i]))

\* s.split(c), c one character: every occurrence splits, empty pieces are kept
Split(s, c) == SplitFrom(s, c, 1, <<>>)

RECURSIVE ReplaceDotSpace(_)
\* s.replace('. ', '.'): left to right, occurrences do not overlap
ReplaceDotSpace(s) ==
    IF Len(s) < 2 THEN s
    ELSE IF s[1] = "." /\ s[2] = " "
         THEN <<".">> \o ReplaceDotSpace(SubSeq(s, 3, Len(s)))
         ELSE <<s[1]>> \o ReplaceDotSpace(Tail(s))

-----------------------------------------------------------------------------
(* split_text_for_tts, lines 19-65.  A fragment is kept with its provenance: *)
(* origin is the place that appended it ("paragraph" line 29, "clauses"     *)
(* lines 45/49, "sentences" line 53, "flush" line 59, "final" line 63),      *)
(* pieces the number of non-empty                                            *)
(* sentences or clauses packed into it, atom the length of its first piece   *)
(* as the loop held it (sentence, or stripped part).                         *)

Frag(t, origin, pieces, atom) ==
    [text |-> t, origin |-> origin, pieces |-> pieces, atom |-> atom]

\* line 23
Paragraphs(t) ==
    LET ps == Split(t, NL)
        stripped == [k \in 1..Len(ps) |-> Strip(ps[k])]
    IN SelectSeq(stripped, LAMBDA p : p # <<>>)

\* line 32
Sentences(paragraph) ==
    LET ss == Split(ReplaceDotSpace(paragraph), ".")
        kept == SelectSeq(ss, LAMBDA s : Strip(s) # <<>>)
    IN [k \in 1..Len(kept) |-> Strip(kept[k]) \o <<".">>]

\* a variant of ClauseFragment: the clause is appended as it stands
ClauseFragmentBare(cp) == cp.text

\* lines 45 and 49: fragments.append(current_part + ".")
ClauseFragment(cp) == cp.text \o <<".">>

RECURSIVE PackParts(_, _, _, _, _)
\* lines 39-49; cp is current_part with its provenance
PackParts(parts, k, cp, L, frags) ==
    IF k > Len(parts)
    THEN IF cp.text # <<>>
         THEN Append(frags, Frag(ClauseFragment(cp), "clauses", cp.pieces, cp.atom))
         ELSE frags
    ELSE LET part == Strip(parts[k])
             n == IF part # <<>> THEN 1 ELSE 0
         IN IF Len(cp.text) + Len(part) + 2 <= L
            THEN PackParts(parts, k + 1,
                     [text |-> StripChars(cp.text \o <<",", " ">> \o part, {",", " "}),
                      pieces |-> cp.pieces + n,
                      atom |-> IF cp.pieces = 0 THEN Len(part) ELSE cp.atom],
                     L, frags)
            ELSE PackParts(parts, k + 1,
                     [text |-> part, pieces |-> n, atom |-> Len(part)],
                     L,
                     IF cp.text # <<>>
                     THEN Append(frags, Frag(ClauseFragment(cp), "clauses", cp.pieces, cp.atom))
                     ELSE frags)

EmptyPart == [text |-> <<>>, pieces |-> 0, atom |-> 0]

\* line 51: the test that closes current_fragment before sentence is added
SentenceOverflows(cf, sentence, L) == Len(cf.text \o sentence) > L

\* lines 35-49: an oversized sentence is split on commas and its clauses appended
OversizedSentence(sentence, L, st) ==
    [frags |-> PackParts(Split(sentence, ","), 1, EmptyPart, L, st.frags),
     cf |-> st.cf]

RECURSIVE PackSentences(_, _, _, _)
\* lines 34-56; st = [frags, cf], cf is current_fragment with its provenance
PackSentences(sentences, k, L, st) ==
    IF k > Len(sentences) THEN st
    ELSE LET sentence == sentences[k] IN
         IF Len(sentence) > L
         THEN PackSentences(sentences, k + 1, L, OversizedSentence(sentence, L, st))
         ELSE IF SentenceOverflows(st.cf, sentence, L)
         THEN PackSentences(sentences, k + 1, L,
                  [frags |-> IF st.cf.text # <<>>
                             THEN Append(st.frags,
                                      Frag(Strip(st.cf.text), "sentences",
                                           st.cf.pieces, st.cf.atom))
                             ELSE st.frags,
                   cf |-> [text |-> sentence, pieces |-> 1, atom |-> Len(sentence)]])
         ELSE PackSentences(sentences, k + 1, L,
                  [frags |-> st.frags,
                   cf |-> [text |-> Strip(st.cf.text \o <<" ">> \o sentence),
                           pieces |-> st.cf.pieces + 1,
                           atom |-> IF st.cf.pieces = 0 THEN Len(sentence)
                                    ELSE st.cf.atom]])

RECURSIVE SplitParagraphs(_, _, _, _)
\* lines 27-60
SplitParagraphs(ps, k, L, st) ==
    IF k > Len(ps) THEN st
    ELSE LET paragraph == ps[k] IN
         IF Len(paragraph) <= L
         THEN SplitParagraphs(ps, k + 1, L,
                  [frags |-> Append(st.frags, Frag(paragraph, "paragraph", 1, Len(paragraph))),
                   cf |-> st.cf])
         ELSE LET after == PackSentences(Sentences(paragraph), 1, L, st) IN
              SplitParagraphs(ps, k + 1, L,
                  IF after.cf.text # <<>>
                  THEN [frags |-> Append(after.frags,
                                      Frag(after.cf.text, "flush",
                                           after.cf.pieces, after.cf.atom)),
                        cf |-> EmptyPart]
                  ELSE after)

\* lines 19-65, with each fragment's provenance
SplitWithProvenance(t, L) ==
    LET st == SplitParagraphs(Paragraphs(t), 1, L, [frags |-> <<>>, cf |-> EmptyPart])
    IN IF st.cf.text # <<>>
       THEN Append(st.frags, Frag(st.cf.text, "final", st.cf.pieces, st.cf.atom))
       ELSE st.frags

\* split_text_for_tts(text, max_chars): the list of fragments
split_text_for_tts(t, L) ==
    LET fs == SplitWithProvenance(t, L) IN [k \in 1..Len(fs) |-> fs[k].text]

-----------------------------------------------------------------------------
(* The inputs of a call of split_text_for_tts on its own *)

MaxTextLen == 6
Alphabet == {"a", ".", ",", " ", NL}
SplitBounds == {2, 3, 4}

Texts == UNION {[1..n -> Alphabet] : n \in 0..MaxTextLen}

-----------------------------------------------------------------------------
(* generate_audio_with_retries, lines 67-112 *)

\* line 73
letters == <<"a", "b", "c">>

\* retries=2 of line 68: range(retries + 1) is attempts 0, 1, 2
retries == 2

Digit(d) ==
    CASE d = 0 -> "0" [] d = 1 -> "1" [] d = 2 -> "2" [] d = 3 -> "3" [] d = 4 -> "4"
      [] d = 5 -> "5" [] d = 6 -> "6" [] d = 7 -> "7" [] d = 8 -> "8" [] d = 9 -> "9"

RECURSIVE StrInt(_)
\* the f-string conversion of a non-negative int
StrInt(n) == IF n < 10 THEN <<Digit(n)>> ELSE StrInt(n \div 10) \o <<Digit(n % 10)>>

\* a variant of TakeLetter: the letter counts the artifacts so far
TakeLetterByCount(att) == letters[Len(results) + 1]

\* line 99: the take letter of an attempt
TakeLetter(att) == letters[att + 1]

\* line 99: f"escena{scene_number}_parte{fragment_number}{letters[attempt]}.mp3"
Filename(scene_number, fragment_number, att) ==
    <<"e", "s", "c", "e", "n", "a">> \o StrInt(scene_number)
        \o <<"_", "p", "a", "r", "t", "e">> \o StrInt(fragment_number)
        \o <<TakeLetter(att)>> \o <<".", "m", "p", "3">>

\* lines 100-105.  The 'text' entry is left out: nothing reads it.
Artifact(content, scene_number, fragment_number, att) ==
    [content |-> content,
     filename |-> Filename(scene_number, fragment_number, att),
     scene |-> scene_number]

-----------------------------------------------------------------------------
(* get_available_voices, lines 114-131.  A response of the service is        *)
(* raised (requests.get raised), or a status with a body: "voices" a         *)
(* well-formed listing, "malformed" a body response.json()["voices"] fails   *)
(* on.                                                                       *)

VoiceListing == [n \in {"Rachel"} |-> "voice-1"]
NoVoices == [n \in {} |-> "voice-1"]

\* requests.get raised: there is no response
NotAsked == [raised |-> TRUE, status |-> 0, body |-> "none"]

VoiceResponses ==
    {NotAsked,
     [raised |-> FALSE, status |-> 200, body |-> "voices"],
     [raised |-> FALSE, status |-> 200, body |-> "malformed"],
     [raised |-> FALSE, status |-> 401, body |-> "malformed"]}

get_available_voices(r) ==
    IF r.raised THEN NoVoices                        \* line 130
    ELSE IF r.status = 200
         THEN IF r.body = "malformed" THEN NoVoices  \* line 127 raises, line 130
              ELSE VoiceListing                      \* line 128
         ELSE NoVoices                               \* line 129

-----------------------------------------------------------------------------
(* create_zip_files_by_version, lines 133-168.  An archive is the sequence   *)
(* of its entries [path, content] in the order zip_file.writestr wrote them. *)

\* line 144: audio['filename'][-5]
Version(audio) == audio.filename[Len(audio.filename) - 4]

\* a variant of FilesByVersion: the three versions share one list
FilesByVersionShared(audio_files, version) == audio_files

\* lines 137-145
FilesByVersion(audio_files, version) ==
    SelectSeq(audio_files, LAMBDA audio : Version(audio) = version)

RECURSIVE SceneKeys(_, _, _)
\* lines 152-157: the keys of files_by_scene, in insertion order
SceneKeys(files, k, keys) ==
    IF k > Len(files) THEN keys
    ELSE SceneKeys(files, k + 1,
             IF \E j \in 1..Len(keys) : keys[j] = files[k].scene
             THEN keys ELSE Append(keys, files[k].scene))

\* lines 161-163
FilePath(audio) ==
    <<"e", "s", "c", "e", "n", "a", "_">> \o StrInt(audio.scene) \o <<"/">> \o audio.filename

RECURSIVE WriteScenes(_, _, _)
\* lines 160-164
WriteScenes(files, keys, k) ==
    IF k > Len(keys) THEN <<>>
    ELSE LET scene_files == SelectSeq(files, LAMBDA audio : audio.scene = keys[k])
         IN [j \in 1..Len(scene_files) |->
                [path |-> FilePath(scene_files[j]), content |-> scene_files[j].content]]
            \o WriteScenes(files, keys, k + 1)

\* lines 148-166: the archive of one version
ZipOf(files) == WriteScenes(files, SceneKeys(files, 1, <<>>), 1)

create_zip_files_by_version(audio_files) ==
    [version \in {"a", "b", "c"} |-> ZipOf(FilesByVersion(audio_files, version))]

-----------------------------------------------------------------------------
(* The session state and the inputs of a run of main() *)

MaxRows == 2        \* spreadsheet rows given to the batches of a session
MaxFailures == 3    \* failed service calls in a session

\* Python's None
None == [none |-> TRUE]

\* lines 13-17
EmptyGeneration ==
    [zip_contents |-> None, timestamp |-> None, files_generated |-> FALSE]

\* the texts a row's first cell may hold: one paragraph, or two paragraphs
\* (each within every max_chars the widget allows, so one fragment each)
OneParagraph == <<"a", "a", ".">>
TwoParagraphs == <<"a", "a", ".", NL, "a", ".">>
SceneTexts == {OneParagraph, TwoParagraphs}

\* lines 189-192: number_input(min_value=100, max_value=500, value=250)
MaxCharsChoices == {250}

\* the spreadsheets with at least one row (line 231: not df.empty)
Sheets == UNION {[1..n -> SceneTexts] : n \in 1..MaxRows}

ApiKeys == {"", "key"}

\* The values one run of main() reads: the widgets (api_key, max_chars, the
\* uploaded file, the button) and the service's answer to the voice listing.
\* upload is "none" (line 221), "unreadable" (read_excel raises) or "sheet",
\* df the rows read; the button exists only under a loaded, non-empty sheet.
RunInputs ==
    {in \in [api_key : ApiKeys, resp : VoiceResponses, max_chars : MaxCharsChoices,
             upload : {"none", "unreadable", "sheet"}, df : Sheets \cup {<<>>},
             button : BOOLEAN] :
        /\ in.upload # "sheet" => in.df = <<>>
        /\ in.df = <<>> => ~in.button
        /\ in.api_key = "" => in.resp = NotAsked}

NoInputs ==
    [api_key |-> "", resp |-> NotAsked,
     max_chars |-> 250, upload |-> "none", df |-> <<>>, button |-> FALSE]

MainInit ==
    /\ current_generation = EmptyGeneration
    /\ pc = "idle"
    /\ inputs = NoInputs
    /\ voices = NoVoices
    /\ scene_idx = 0
    /\ fragments = <<>>
    /\ frag_idx = 0
    /\ attempt = 0
    /\ results = <<>>
    /\ all_audio_files = <<>>
    /\ events = <<>>
    /\ lastRun = "none"
    /\ genAtStart = EmptyGeneration
    /\ batches = 0
    /\ failures = 0
    /\ rows = 0

SplitUnused ==
    /\ text = <<>>
    /\ max_chars = 0
    /\ split_pc = "unused"
    /\ fragments_out = <<>>

Init == MainInit /\ SplitUnused

-----------------------------------------------------------------------------
(* main(), lines 170-333.  A run that does not start a batch is one action:  *)
(* the script runs from line 171 to its return.                              *)

\* lines 208-216: what main holds in voices after the listing
VoicesOf(in) ==
    IF in.api_key # "" THEN get_available_voices(in.resp) ELSE NoVoices

\* a variant of PassesVoices: main does not return at line 216
PassesVoicesAlways(in) == TRUE

\* lines 208-216: the run goes on past the voice listing
PassesVoices(in) == in.api_key = "" \/ DOMAIN VoicesOf(in) # {}

\* a variant of InitialAudioFiles: the list outlives the run
CarriedAudioFiles == all_audio_files

\* line 246: all_audio_files = []
InitialAudioFiles == <<>>

\* The script starts: the locals are fresh, the widgets hold this run's values.
BeginRun(in) ==
    /\ pc = "idle"
    /\ inputs' = in
    /\ voices' = VoicesOf(in)
    /\ genAtStart' = current_generation
    /\ fragments' = <<>>
    /\ frag_idx' = 0
    /\ attempt' = 0
    /\ results' = <<>>
    /\ all_audio_files' = InitialAudioFiles
    /\ events' = <<>>
    /\ UNCHANGED <<failures, splitVars>>

\* The script returns (or falls through to the download section, lines
\* 298-333, which only reads current_generation) without starting the batch.
ReturnFromMain(how) ==
    /\ pc' = "idle"
    /\ lastRun' = how
    /\ scene_idx' = 0
    /\ UNCHANGED <<current_generation, rows, batches>>

\* lines 214-216: an API key is given and no voice came back
StopsAtVoices(in) == ~PassesVoices(in)

\* main returns at line 216, before it reads the uploader and the button
RunNoVoices ==
    \E in \in RunInputs :
        /\ StopsAtVoices(in)
        /\ in.upload = "none"
        /\ BeginRun(in)
        /\ ReturnFromMain("no_voices")

\* line 221: no file uploaded
RunNoUpload ==
    \E in \in RunInputs :
        /\ PassesVoices(in)
        /\ in.upload = "none"
        /\ BeginRun(in)
        /\ ReturnFromMain("no_upload")

\* lines 228 and 294-295: pd.read_excel raises
RunUnreadable ==
    \E in \in RunInputs :
        /\ PassesVoices(in)
        /\ in.upload = "unreadable"
        /\ BeginRun(in)
        /\ ReturnFromMain("unreadable")

\* lines 231-233: df.empty
RunEmptySheet ==
    \E in \in RunInputs :
        /\ PassesVoices(in)
        /\ in.upload = "sheet"
        /\ in.df = <<>>
        /\ BeginRun(in)
        /\ ReturnFromMain("empty_sheet")

\* line 241: the button is not pressed
RunNoButton ==
    \E in \in RunInputs :
        /\ PassesVoices(in)
        /\ in.upload = "sheet"
        /\ in.df # <<>>
        /\ ~in.button
        /\ BeginRun(in)
        /\ ReturnFromMain("no_button")

\* lines 242-244: the button is pressed without an API key
RunButtonNoKey ==
    \E in \in RunInputs :
        /\ PassesVoices(in)
        /\ in.upload = "sheet"
        /\ in.df # <<>>
        /\ in.button
        /\ in.api_key = ""
        /\ BeginRun(in)
        /\ ReturnFromMain("no_key")

\* lines 241-253: the batch starts, at the first row of df
StartBatch ==
    \E in \in RunInputs :
        /\ PassesVoices(in)
        /\ in.upload = "sheet"
        /\ in.df # <<>>
        /\ in.button
        /\ in.api_key # ""
        /\ rows + Len(in.df) <= MaxRows
        /\ rows' = rows + Len(in.df)
        /\ batches' = batches + 1
        /\ BeginRun(in)
        /\ pc' = "scene"
        /\ lastRun' = "running"
        /\ scene_idx' = 1
        /\ UNCHANGED current_generation

-----------------------------------------------------------------------------
(* The batch, lines 253-292 *)

CallEvent(outcome) ==
    [kind |-> "call", scene |-> scene_idx, fragment |-> frag_idx,
     attempt |-> attempt, outcome |-> outcome]

\* line 106: time.sleep(5.5)
SleepEvent == [kind |-> "sleep"]

Calls(evs) == SelectSeq(evs, LAMBDA e : e.kind = "call")

\* response.content of the next call: the audio the service returns for it
NextContent == [audio |-> Len(Calls(events)) + 1]

\* lines 253-262: the next row of df is read and its text split
BeginScene ==
    /\ pc = "scene"
    /\ LET fs == split_text_for_tts(inputs.df[scene_idx], inputs.max_chars) IN
       /\ fragments' = fs
       /\ IF fs = <<>>
          THEN /\ scene_idx' = scene_idx + 1
               /\ pc' = IF scene_idx + 1 > Len(inputs.df) THEN "zip" ELSE "scene"
               /\ frag_idx' = 0
          ELSE /\ scene_idx' = scene_idx
               /\ pc' = "attempt"
               /\ frag_idx' = 1
    /\ attempt' = 0
    /\ results' = <<>>
    /\ UNCHANGED <<current_generation, inputs, voices, all_audio_files, events,
                   lastRun, genAtStart, batches, failures, rows, splitVars>>

\* generate_audio_with_retries returns (line 112), main extends all_audio_files
\* (line 274) and goes to the next fragment (line 262) or the next row (lines
\* 282-283, 253)
ReturnResults(res) ==
    /\ attempt' = 0
    /\ results' = <<>>
    /\ all_audio_files' = all_audio_files \o res
    /\ IF frag_idx < Len(fragments)
       THEN /\ frag_idx' = frag_idx + 1
            /\ UNCHANGED <<scene_idx, pc>>
       ELSE /\ frag_idx' = 0
            /\ scene_idx' = scene_idx + 1
            /\ pc' = IF scene_idx + 1 > Len(inputs.df) THEN "zip" ELSE "scene"

\* line 75: the loop over range(retries + 1) goes on, or ends
AfterAttempt(res) ==
    IF attempt < retries
    THEN /\ attempt' = attempt + 1
         /\ results' = res
         /\ UNCHANGED <<all_audio_files, frag_idx, scene_idx, pc>>
    ELSE ReturnResults(res)

\* lines 96-106: the request, then the sleep
SuccessEvents == <<CallEvent("ok"), SleepEvent>>

\* a variant of FailureEvents: the sleep follows every request
FailureEventsWithSleep == <<CallEvent("failed"), SleepEvent>>

\* lines 96 and 107-110: the request, and no sleep
FailureEvents == <<CallEvent("failed")>>

\* lines 96-106: the service answers 200
AttemptSucceeds ==
    /\ pc = "attempt"
    /\ events' = events \o SuccessEvents
    /\ AfterAttempt(Append(results, Artifact(NextContent, scene_idx, frag_idx, attempt)))
    /\ UNCHANGED <<current_generation, inputs, voices, fragments, lastRun, genAtStart,
                   batches, failures, rows, splitVars>>

\* a variant of FailedAttempt: the first failure ends the loop
FailedAttemptBreaks == ReturnResults(results)

\* what a failed attempt leaves in the locals: nothing is appended, the loop goes on
FailedAttempt == AfterAttempt(results)

\* lines 107-108: the service answers another status
AttemptHttpError ==
    /\ pc = "attempt"
    /\ failures < MaxFailures
    /\ failures' = failures + 1
    /\ events' = events \o FailureEvents
    /\ FailedAttempt
    /\ UNCHANGED <<current_generation, inputs, voices, fragments, lastRun, genAtStart,
                   batches, rows, splitVars>>

\* lines 109-110: requests.post raises
AttemptRaises ==
    /\ pc = "attempt"
    /\ failures < MaxFailures
    /\ failures' = failures + 1
    /\ events' = events \o FailureEvents
    /\ FailedAttempt
    /\ UNCHANGED <<current_generation, inputs, voices, fragments, lastRun, genAtStart,
                   batches, rows, splitVars>>

\* line 290: datetime.now().strftime(...), the clock read at the end of the run
Timestamp == [clock |-> batches]

\* lines 288-292
NewGeneration ==
    [zip_contents |-> create_zip_files_by_version(all_audio_files),
     timestamp |-> Timestamp,
     files_generated |-> TRUE]

\* a variant of HasAudio: the generation is stored whatever the batch produced
AlwaysStore == TRUE

\* line 287: if all_audio_files
HasAudio == all_audio_files # <<>>

\* lines 285-292: the loop is over
FinishBatch ==
    /\ pc = "zip"
    /\ pc' = "idle"
    /\ IF HasAudio
       THEN /\ current_generation' = NewGeneration
            /\ lastRun' = "stored"
       ELSE /\ UNCHANGED current_generation
            /\ lastRun' = "no_audio"
    /\ UNCHANGED <<inputs, voices, scene_idx, fragments, frag_idx, attempt, results,
                   all_audio_files, events, genAtStart, batches, failures, rows, splitVars>>

\* lines 222 and 294-295: a call of the batch other than the synthesis request
\* (pandas, the presentation layer) raises; main reports it and goes on to the
\* download section
BatchRaises ==
    /\ pc \in {"scene", "attempt", "zip"}
    /\ pc' = "idle"
    /\ lastRun' = "batch_exception"
    /\ scene_idx' = 0
    /\ fragments' = <<>>
    /\ frag_idx' = 0
    /\ attempt' = 0
    /\ results' = <<>>
    /\ all_audio_files' = <<>>
    /\ events' = <<>>
    /\ UNCHANGED <<current_generation, inputs, voices, genAtStart, batches,
                   failures, rows, splitVars>>

Next ==
    \/ RunNoVoices
    \/ RunNoUpload
    \/ RunUnreadable
    \/ RunEmptySheet
    \/ RunNoButton
    \/ RunButtonNoKey
    \/ StartBatch
    \/ BeginScene
    \/ AttemptSucceeds
    \/ AttemptHttpError
    \/ AttemptRaises
    \/ FinishBatch
    \/ BatchRaises

Spec == Init /\ [][Next]_vars

-----------------------------------------------------------------------------
(* split_text_for_tts called on its own, on every text up to MaxTextLen      *)
(* over Alphabet and every bound of SplitBounds                              *)

InitSplit ==
    /\ text \in Texts
    /\ max_chars \in SplitBounds
    /\ split_pc = "input"
    /\ fragments_out = <<>>
    /\ MainInit

CallSplit ==
    /\ split_pc = "input"
    /\ split_pc' = "done"
    /\ fragments_out' = SplitWithProvenance(text, max_chars)
    /\ UNCHANGED <<text, max_chars, mainVars>>

NextSplit == CallSplit

SpecSplit == InitSplit /\ [][NextSplit]_vars

-----------------------------------------------------------------------------
(* Properties of split_text_for_tts (SpecSplit) *)

Letters == {"a"}

\* the words of a string: its maximal runs of letters, in order
WordsOf(str) ==
    LET spaced == [k \in 1..Len(str) |-> IF str[k] \in Letters THEN str[k] ELSE " "]
    IN SelectSeq(Split(spaced, " "), LAMBDA w : w # <<>>)

RECURSIVE JoinFragments(_, _)
\* the fragments from the k-th on, concatenated in list order
JoinFragments(fs, k) ==
    IF k > Len(fs) THEN <<>> ELSE fs[k].text \o <<" ">> \o JoinFragments(fs, k + 1)

Origins(fs) == {fs[k].origin : k \in 1..Len(fs)}

\* C1: every fragment returned by split_text_for_tts(text, L) has length <= L
\* unless it is a single atomic piece that exceeds L on its own; in particular
\* a fragment built by packing two or more sentences or two or more clauses
\* together never exceeds L.  (The formula is that last part, which the
\* general statement implies.)
C1_PackedFragmentsWithinBound ==
    split_pc = "done" =>
        \A k \in 1..Len(fragments_out) :
            LET f == fragments_out[k] IN
            f.pieces >= 2 => Len(f.text) <= max_chars

\* C2: the fragments, concatenated in list order, hold the words of the input
\* in their original order, none omitted or duplicated.
C2_WordsInOrder ==
    split_pc = "done" => WordsOf(JoinFragments(fragments_out, 1)) = WordsOf(text)

\* C9: every fragment that comes from sentence or clause splitting (every
\* fragment of a paragraph longer than max_chars) is non-empty and ends with '.'.
C9_SplitFragmentsEndWithPeriod ==
    split_pc = "done" =>
        \A k \in 1..Len(fragments_out) :
            LET f == fragments_out[k] IN
            f.origin # "paragraph" => f.text # <<>> /\ f.text[Len(f.text)] = "."

\* one call emitted fragments from clause packing, from sentence packing and
\* from the end-of-paragraph flush
C9_Witness ==
    /\ split_pc = "done"
    /\ {"clauses", "sentences", "flush"} \subseteq Origins(fragments_out)

-----------------------------------------------------------------------------
(* Properties of the session and the batch (Spec) *)

InBatch == pc \in {"scene", "attempt", "zip"}

\* the run ended at line 292 or fell out of line 287
BatchFinished == pc = "idle" /\ lastRun \in {"stored", "no_audio"}

IsPrefix(a, b) == Len(a) <= Len(b) /\ a = SubSeq(b, 1, Len(a))

\* the calls a fragment is due: attempts 0, 1, 2 in that order
FragmentCalls(scene, frag) == [j \in 1..3 |-> <<scene, frag, j - 1>>]

RECURSIVE SceneCalls(_, _, _)
SceneCalls(scene, nfrags, frag) ==
    IF frag > nfrags THEN <<>>
    ELSE FragmentCalls(scene, frag) \o SceneCalls(scene, nfrags, frag + 1)

RECURSIVE ExpectedCalls(_, _, _)
\* three calls for every fragment of every row from the k-th on, rows in row
\* order and fragments in list order
ExpectedCalls(df, L, k) ==
    IF k > Len(df) THEN <<>>
    ELSE SceneCalls(k, Len(split_text_for_tts(df[k], L)), 1) \o ExpectedCalls(df, L, k + 1)

CallKeys(evs) ==
    LET cs == Calls(evs) IN [k \in 1..Len(cs) |-> <<cs[k].scene, cs[k].fragment, cs[k].attempt>>]

OkCalls(evs) == SelectSeq(Calls(evs), LAMBDA e : e.outcome = "ok")

Failed(e) == e.kind = "call" /\ e.outcome = "failed"

\* the take of an attempt: attempt 1 is 'a', attempt 2 is 'b', attempt 3 is 'c'
TakeOfAttempt(att) == CASE att = 0 -> "a" [] att = 1 -> "b" [] att = 2 -> "c"

\* escena<scene>_parte<fragment><take>.mp3
NamedFor(name, scene, frag, take) ==
    name = <<"e", "s", "c", "e", "n", "a">> \o StrInt(scene)
               \o <<"_", "p", "a", "r", "t", "e">> \o StrInt(frag)
               \o <<take, ".", "m", "p", "3">>

\* the artifacts produced so far in this run
Produced == all_audio_files \o results

\* C3: the artifacts are exactly those of the succeeding attempts, in attempt
\* order, attempt 1 tagged 'a', attempt 2 'b', attempt 3 'c', under the scene
\* and fragment number of the call; a failed attempt contributes nothing and
\* does not shift the letters of later attempts.
C3_TakesFollowAttempts ==
    LET oks == OkCalls(events) IN
    /\ Len(Produced) = Len(oks)
    /\ \A k \in 1..Len(oks) :
           /\ Produced[k].scene = oks[k].scene
           /\ NamedFor(Produced[k].filename, oks[k].scene, oks[k].fragment,
                       TakeOfAttempt(oks[k].attempt))
    /\ pc = "attempt" =>
           results = SubSeq(Produced, Len(Produced) - Len(results) + 1, Len(Produced))
    /\ pc = "attempt" =>
           \A k \in 1..Len(results) :
               \E j \in 1..Len(oks) :
                   /\ oks[j].scene = scene_idx /\ oks[j].fragment = frag_idx
                   /\ NamedFor(results[k].filename, scene_idx, frag_idx,
                               TakeOfAttempt(oks[j].attempt))

\* a fragment whose attempts 1 and 3 succeeded and whose attempt 2 failed has
\* takes a and c only
C3_Witness ==
    /\ Len(events) >= 5
    /\ SubSeq(CallKeys(events), 1, 3) = <<<<1, 1, 0>>, <<1, 1, 1>>, <<1, 1, 2>>>>
    /\ Calls(events)[1].outcome = "ok"
    /\ Calls(events)[2].outcome = "failed"
    /\ Calls(events)[3].outcome = "ok"
    /\ Len(all_audio_files) >= 2
    /\ Version(all_audio_files[1]) = "a"
    /\ Version(all_audio_files[2]) = "c"

\* C4: no synthesis failure aborts a batch: every fragment of every scene
\* receives exactly three calls, scenes in row order and fragments in list
\* order, and the batch reaches the archive-building step (from every point of
\* the loop a step of the batch is possible, the run leaves the loop only to
\* the archive step or by an exception that is not a synthesis failure, and at
\* the archive step every call has been made).
C4_BatchRunsToArchive ==
    LET due == ExpectedCalls(inputs.df, inputs.max_chars, 1) IN
    /\ InBatch => IsPrefix(CallKeys(events), due)
    /\ pc = "attempt" =>
           /\ Len(CallKeys(events)) < Len(due)
           /\ due[Len(CallKeys(events)) + 1] = <<scene_idx, frag_idx, attempt>>
    /\ pc = "scene" => ENABLED BeginScene
    /\ pc = "attempt" => ENABLED AttemptSucceeds
    /\ pc = "zip" => ENABLED FinishBatch
    /\ (pc = "zip" \/ BatchFinished) => CallKeys(events) = due
    /\ lastRun = "running" <=> InBatch

\* a batch of two scenes, one of them of two fragments, reached the archive
\* step although calls failed
C4_Witness ==
    /\ pc = "zip"
    /\ Len(inputs.df) = 2
    /\ \E k \in 1..Len(events) : Failed(events[k]) /\ events[k].fragment = 2
    /\ \E k \in 1..Len(events) : Failed(events[k]) /\ events[k].scene = 2
    /\ Len(Calls(events)) >= 9

Takes == {"a", "b", "c"}

\* the entries of the stored archives: <<take, position in the archive>>
Entries(zip) == UNION {{<<v, j>> : j \in 1..Len(zip[v])} : v \in DOMAIN zip}

\* escena_<scene>/<filename>
PathFor(path, scene, name) ==
    path = <<"e", "s", "c", "e", "n", "a", "_">> \o StrInt(scene) \o <<"/">> \o name

\* C5: the result of create_zip_files_by_version has exactly the keys a, b, c;
\* each artifact is in exactly one archive, that of its take letter, under the
\* path escena_<scene>/<filename>, and no archive holds anything else; within
\* an archive the entries are in arrival order, ascending by scene and then by
\* fragment.
C5_ArchivesPartitionByTake ==
    (pc = "idle" /\ lastRun = "stored") =>
        LET zip == current_generation.zip_contents
            oks == OkCalls(events)
            Holds(e, k) ==
                /\ zip[e[1]][e[2]].content = all_audio_files[k].content
                /\ PathFor(zip[e[1]][e[2]].path, oks[k].scene, all_audio_files[k].filename)
        IN /\ DOMAIN zip = Takes
           /\ \A k \in 1..Len(all_audio_files) :
                  /\ Cardinality({e \in Entries(zip) : Holds(e, k)}) = 1
                  /\ \A e \in Entries(zip) :
                         Holds(e, k) => e[1] = TakeOfAttempt(oks[k].attempt)
           /\ \A e \in Entries(zip) : \E k \in 1..Len(all_audio_files) : Holds(e, k)
           /\ \A e1, e2 \in Entries(zip) :
                  (e1[1] = e2[1] /\ e1[2] < e2[2]) =>
                      \E k1, k2 \in 1..Len(all_audio_files) :
                          /\ Holds(e1, k1) /\ Holds(e2, k2)
                          /\ k1 < k2
                          /\ \/ oks[k1].scene < oks[k2].scene
                             \/ /\ oks[k1].scene = oks[k2].scene
                                /\ oks[k1].fragment < oks[k2].fragment

\* two scenes with three successful takes each: three archives of two entries
\* each, scene 1 before scene 2
C5_Witness ==
    /\ pc = "idle" /\ lastRun = "stored"
    /\ Len(inputs.df) = 2
    /\ Len(all_audio_files) = 6
    /\ \A v \in Takes :
           /\ Len(current_generation.zip_contents[v]) = 2
           /\ PathFor(current_generation.zip_contents[v][1].path, 1,
                      <<"e", "s", "c", "e", "n", "a", "1", "_", "p", "a", "r", "t", "e",
                        "1", v, ".", "m", "p", "3">>)
           /\ PathFor(current_generation.zip_contents[v][2].path, 2,
                      <<"e", "s", "c", "e", "n", "a", "2", "_", "p", "a", "r", "t", "e",
                        "1", v, ".", "m", "p", "3">>)

\* a failure of the voice listing: the request raised, the status is not 200,
\* or the body is malformed
VoiceFailure(r) == r.raised \/ r.status # 200 \/ r.body = "malformed"

\* C6: get_available_voices returns an empty mapping on every failure; and
\* whenever an API key is supplied and the mapping is empty, main stops before
\* the batch can start: no synthesis call is made and the stored generation is
\* left unchanged.
C6_NoVoicesNoBatch ==
    /\ (lastRun # "none" /\ inputs.api_key # "" /\ VoiceFailure(inputs.resp)) => DOMAIN voices = {}
    /\ (lastRun # "none" /\ inputs.api_key # "" /\ DOMAIN voices = {}) =>
           /\ pc = "idle"
           /\ lastRun = "no_voices"
           /\ events = <<>>
           /\ all_audio_files = <<>>
           /\ current_generation = genAtStart

\* with a generation stored, a run with an API key got status 401 from the
\* voice listing, and stopped
C6_Witness ==
    /\ lastRun = "no_voices"
    /\ inputs.api_key # ""
    /\ inputs.resp.status = 401
    /\ current_generation.files_generated

\* C7: at every point of a batch all_audio_files holds at most one artifact per
\* (scene, fragment, take) triple; no two artifacts share a filename, and no
\* two entries of an archive built from the collection share a path.
C7_OneArtifactPerTake ==
    /\ \A j, k \in 1..Len(all_audio_files) :
           j # k =>
               /\ all_audio_files[j].filename # all_audio_files[k].filename
               /\ <<all_audio_files[j].scene, all_audio_files[j].filename>>
                      # <<all_audio_files[k].scene, all_audio_files[k].filename>>
    /\ Len(all_audio_files) <= Len(OkCalls(events))
    /\ \A j, k \in 1..Len(all_audio_files) :
           j # k =>
               LET oks == OkCalls(events) IN
               <<oks[j].scene, oks[j].fragment, oks[j].attempt>>
                   # <<oks[k].scene, oks[k].fragment, oks[k].attempt>>
    /\ current_generation.files_generated =>
           LET zip == current_generation.zip_contents IN
           \A v \in DOMAIN zip : \A i, j \in 1..Len(zip[v]) :
               i # j => zip[v][i].path # zip[v][j].path

\* the second batch of a session holds artifacts of two fragments of one scene
\* and of two takes of one fragment
C7_Witness ==
    /\ batches = 2
    /\ genAtStart.files_generated
    /\ InBatch
    /\ \E j, k \in 1..Len(all_audio_files) :
           /\ j # k
           /\ all_audio_files[j].scene = all_audio_files[k].scene
           /\ Version(all_audio_files[j]) = Version(all_audio_files[k])
    /\ \E j, k \in 1..Len(all_audio_files) :
           /\ Version(all_audio_files[j]) = "a"
           /\ Version(all_audio_files[k]) = "b"
           /\ SubSeq(all_audio_files[j].filename, 1, 14)
                  = SubSeq(all_audio_files[k].filename, 1, 14)

\* C8: after a successful attempt the delay elapses before the next service
\* call; after a failed attempt the next service call follows with no delay.
C8_SleepAfterSuccessOnly ==
    \A k \in 1..Len(events) :
        /\ (events[k].kind = "call" /\ events[k].outcome = "ok") =>
               k < Len(events) /\ events[k + 1].kind = "sleep"
        /\ Failed(events[k]) => (k = Len(events) \/ events[k + 1].kind = "call")
        /\ events[k].kind = "sleep" =>
               k > 1 /\ events[k - 1].kind = "call" /\ events[k - 1].outcome = "ok"

\* a success, the sleep, a failed call and straight after it the next call
C8_Witness ==
    \E k \in 1..Len(events) :
        /\ k + 3 <= Len(events)
        /\ events[k].kind = "call" /\ events[k].outcome = "ok"
        /\ events[k + 1].kind = "sleep"
        /\ Failed(events[k + 2])
        /\ events[k + 3].kind = "call"

\* C10: the stored generation starts empty and is replaced, all three entries
\* at once, only at the end of a batch that processed every scene and produced
\* at least one artifact; every other run leaves it unchanged; so
\* files_generated implies archives for the takes a, b, c and a timestamp.
C10_GenerationStoredOnlyByFullBatch ==
    /\ batches = 0 => current_generation = EmptyGeneration
    /\ current_generation # genAtStart =>
           /\ pc = "idle"
           /\ lastRun = "stored"
           /\ CallKeys(events) = ExpectedCalls(inputs.df, inputs.max_chars, 1)
           /\ all_audio_files # <<>>
           /\ Len(all_audio_files) = Len(OkCalls(events))
    /\ (pc = "idle" /\ lastRun # "stored") => current_generation = genAtStart
    /\ InBatch => current_generation = genAtStart
    /\ IF current_generation.files_generated
       THEN /\ current_generation.zip_contents # None
            /\ DOMAIN current_generation.zip_contents = Takes
            /\ current_generation.timestamp # None
            /\ \E v \in Takes : current_generation.zip_contents[v] # <<>>
       ELSE current_generation = EmptyGeneration

\* with a generation stored, a batch whose every call failed ended and left it
\* in place
C10_Witness ==
    /\ pc = "idle"
    /\ lastRun = "no_audio"
    /\ Len(Calls(events)) >= 3
    /\ current_generation.files_generated
    /\ current_generation = genAtStart

====
